---- MODULE Spec2Model ----
(***************************************************************************)
(* Model of the LSP definition crawler of the autocomplete feature         *)
(* (extensions/vscode/src/autocomplete/lsp.ts): gotoInputKey,              *)
(* getDefinitionsForNode and getDefinitionsFromLsp.                        *)
(*                                                                         *)
(* Text is a sequence of one-character tokens; "\n" is the line break and  *)
(* " " the blank.  A word such as "function" stands for its characters.    *)
(***************************************************************************)
EXTENDS Integers, Sequences, FiniteSets, TLC

VARIABLES
    pc,          \* position of the running getDefinitionsFromLsp call
    uri,         \* its filepath argument
    treePath,    \* treePath.reverse(): the nodes in the order the loop visits them
    idx,         \* index of the next node the loop visits
    results,     \* the results array of getDefinitionsFromLsp
    ret,         \* what the last call handed to its caller
    exit,        \* history: the statement the last call left through
    gotoCache,   \* the resolver cache (process lifetime)
    runs,        \* number of getDefinitionsFromLsp calls started
    invoked,     \* history: queries handed to the external resolver in this run
    hits,        \* history: queries answered from the cache in this run
    reads,       \* history: number of file-content provider calls in this run
    threw,       \* history: some provider call threw in this run
    located,     \* history: the Syntax Path Locator yielded a non-empty path
    failed,      \* history: per visited node, a provider call threw while it was processed
    resolved     \* history: per visited node, the definition its query resolved to
                 \* and whether the file-content provider could read it then
                 \* (<<>> when the query resolved to none)

vars == <<pc, uri, treePath, idx, results, ret, exit, gotoCache, runs, invoked, hits,
          reads, threw, located, failed, resolved>>

-----------------------------------------------------------------------------
(* Bounds *)

MaxPathLen == 2      \* longest cursor path
MaxRuns == 2         \* calls of getDefinitionsFromLsp in one process

(* Program constants *)

MAX_LINES == 15      \* "Don't display a function of more than 15 lines"
SCORE_TENTHS == 8    \* score: 0.8, in tenths

Undefined == "undefined"

-----------------------------------------------------------------------------
(* Strings *)

RECURSIVE Repeat(_, _)
Repeat(s, n) == IF n = 0 THEN <<>> ELSE s \o Repeat(s, n - 1)

Reverse(s) == [i \in 1..Len(s) |-> s[Len(s) + 1 - i]]

\* String.prototype.split("\n")
RECURSIVE SplitFrom(_, _, _)
SplitFrom(text, i, cur) ==
    IF i > Len(text) THEN <<cur>>
    ELSE IF text[i] = "\n" THEN <<cur>> \o SplitFrom(text, i + 1, <<>>)
    ELSE SplitFrom(text, i + 1, Append(cur, text[i]))

SplitLines(text) == SplitFrom(text, 1, <<>>)

IsSpace(c) == c \in {" ", "\n"}

\* String.prototype.trim()
RECURSIVE TrimStart(_)
TrimStart(text) ==
    IF text # <<>> /\ IsSpace(Head(text)) THEN TrimStart(Tail(text)) ELSE text

Trim(text) == Reverse(TrimStart(Reverse(TrimStart(text))))

\* String.prototype.slice(0, end)
Slice0(text, end) ==
    SubSeq(text, 1, IF end < 0 THEN 0 ELSE IF end > Len(text) THEN Len(text) ELSE end)

\* Number to string, as a template literal prints it
RECURSIVE Digits(_)
Digits(n) == IF n < 10 THEN <<n>> ELSE Digits(n \div 10) \o <<n % 10>>

-----------------------------------------------------------------------------
(* Positions, ranges, syntax nodes *)

Pos(l, c) == [line |-> l, character |-> c]
Point(r, c) == [row |-> r, column |-> c]

Rng(sl, sc, el, ec) == [start |-> Pos(sl, sc), end |-> Pos(el, ec)]

PointLeq(a, b) == a.row < b.row \/ (a.row = b.row /\ a.column <= b.column)

PosLeq(a, b) == a.line < b.line \/ (a.line = b.line /\ a.character <= b.character)

\* new vscode.Range(new vscode.Position(..), new vscode.Position(..)):
\* the constructor orders its two positions
VsRange(range) ==
    IF PosLeq(range.start, range.end) THEN range
    ELSE [start |-> range.end, end |-> range.start]

Child(t, txt, er, ec) == [type |-> t, text |-> txt, endPosition |-> Point(er, ec)]

Node(t, sr, sc, er, ec, ch) ==
    [type |-> t, startPosition |-> Point(sr, sc), endPosition |-> Point(er, ec),
     children |-> ch]

\* The syntax nodes a cursor path is made of.  CallOuter and CallInner are the
\* two call_expression nodes of foo()(x): they start at the same position.
VarDecl == Node("variable_declarator", 1, 6, 12, 1, <<>>)
CallOuter == Node("call_expression", 1, 12, 12, 1, <<>>)
CallInner == Node("call_expression", 1, 12, 1, 20, <<>>)
CallFar == Node("call_expression", 11, 2, 11, 20, <<>>)
NewWidget ==
    Node("new_expression", 11, 4, 11, 16,
         <<Child("new", <<"new">>, 11, 7), Child("identifier", <<"Widget">>, 11, 14)>>)
NewMember ==
    Node("new_expression", 1, 14, 1, 19, <<Child("member_expression", <<"ns.W">>, 1, 18)>>)

Nodes == {VarDecl, CallOuter, CallInner, CallFar, NewWidget, NewMember}

Encloses(outer, inner) ==
    /\ outer # inner
    /\ PointLeq(outer.startPosition, inner.startPosition)
    /\ PointLeq(inner.endPosition, outer.endPosition)

\* getTreePathAtCursor: the chain of nodes from the outermost to the innermost
\* node containing the cursor
RECURSIVE PathsOfLen(_)
PathsOfLen(n) ==
    IF n = 0 THEN {<<>>}
    ELSE IF n = 1 THEN {<<x>> : x \in Nodes}
    ELSE {Append(p, x) : p \in PathsOfLen(n - 1), x \in Nodes} 

IsPath(p) == \A i \in 1..(Len(p) - 1) : Encloses(p[i], p[i + 1])

TreePaths == UNION {{p \in PathsOfLen(n) : IsPath(p)} : n \in 0..MaxPathLen}

Files == {"a.ts", "b.ts"}

-----------------------------------------------------------------------------
(* Definitions in the workspace and their text *)

Rif(f, r) == [filepath |-> f, range |-> r]

FunShort == Rif("lib.ts", Rng(0, 0, 2, 1))
FunLong == Rif("lib.ts", Rng(10, 0, 26, 1))
FunRaw == Rif("lib.ts", Rng(30, 0, 45, 1))
WidgetDef == Rif("widget.ts", Rng(0, 0, 2, 2))
ColorDef == Rif("color.ts", Rng(0, 0, 2, 1))

Defs == {FunShort, FunLong, FunRaw, WidgetDef, ColorDef}

ShortFunText == <<"function", " ", "f()", " ", "{", "\n", "return 1", "\n", "}">>

\* a two-line header and a sixteen-line body
LongFunText ==
    <<"function", " ", "g(", "\n", ")", " ", "{">> \o Repeat(<<"\n", "s">>, 16)
        \o <<"\n", "}">>

\* sixteen lines that hold no function declaration
RawText == <<"x">> \o Repeat(<<"\n", "x">>, 15)

WidgetText == <<" ", "class", " ", "Widget", " ", "{", "\n", "c: Color", "\n", "}", "\n">>

ColorText == <<"enum", " ", "Color", " ", "{", "\n", "Red", "\n", "}">>

\* what the file-content provider returns for a range
FileText(filepath, range) ==
    LET rif == Rif(filepath, range) IN
    IF rif = FunShort THEN ShortFunText
    ELSE IF rif = FunLong THEN LongFunText
    ELSE IF rif = FunRaw THEN RawText
    ELSE IF rif = WidgetDef THEN WidgetText
    ELSE ColorText

-----------------------------------------------------------------------------
(* The resolver adapter *)

DefinitionProvider == "vscode.executeDefinitionProvider"
TypeDefinitionProvider == "vscode.executeTypeDefinitionProvider"

GotoInput(u, l, c, n) == [uri |-> u, line |-> l, character |-> c, name |-> n]

\* `${input.uri.toString}`: uri is a string, so input.uri.toString is the
\* method String.prototype.toString itself, and a template literal prints a
\* built-in function as this text, whatever the string is
NativeToString == "function toString() { [native code] }"

\* `${input.name}${input.uri.toString}${input.line}${input.character}`
gotoInputKey(input) ==
    <<input.name, NativeToString>> \o Digits(input.line) \o Digits(input.character)

\* What one call of the external definition-resolution provider can do: throw,
\* or return a sequence of locations (of which the caller takes the first)
LocLists == {<<>>, <<FunShort, FunLong>>, <<FunLong>>, <<FunRaw>>, <<WidgetDef>>}

Threw == [throws |-> TRUE, locs |-> <<>>]
Answered(locs) == [throws |-> FALSE, locs |-> locs]

GotoOutcomes == {Threw} \cup {Answered(l) : l \in LocLists}

\* The cache entry a finished provider call leaves: its locations, and (history)
\* the query that produced them
CacheEntry(input, locs) == [locs |-> locs, origin |-> input]

\* a resolver that asks the provider every time and keeps nothing
executeGotoProviderNoStore(input, cache, outcome) ==
    [locs |-> IF outcome.throws THEN <<>> ELSE outcome.locs, cache |-> cache,
     invoked |-> <<input>>, hits |-> <<>>, threw |-> outcome.throws]

\* executeGotoProvider: answer from the cache when the key is there; otherwise
\* ask the provider, keep its answer under the key, and answer with it.  A
\* provider error is logged and answered as no location.
executeGotoProvider(input, cache, outcome) ==
    LET key == gotoInputKey(input) IN
    IF key \in DOMAIN cache
    THEN [locs |-> cache[key].locs, cache |-> cache, invoked |-> <<>>,
          hits |-> <<[query |-> input, origin |-> cache[key].origin]>>,
          threw |-> FALSE]
    ELSE LET locs == IF outcome.throws THEN <<>> ELSE outcome.locs IN
         [locs |-> locs, cache |-> cache @@ (key :> CacheEntry(input, locs)),
          invoked |-> <<input>>, hits |-> <<>>, threw |-> outcome.throws]

-----------------------------------------------------------------------------
(* The file-content provider *)

\* ide.readRangeInFile(filepath, range): a TypeError when ide is undefined, the
\* provider's error when the range cannot be read, its text otherwise
readRangeInFile(ide, filepath, range, fails) ==
    IF ide = Undefined THEN [status |-> "throw", provider |-> FALSE, text |-> <<>>]
    ELSE IF Rif(filepath, range) \in fails
    THEN [status |-> "throw", provider |-> TRUE, text |-> <<>>]
    ELSE [status |-> "ok", provider |-> FALSE, text |-> FileText(filepath, range)]

\* number of provider calls a read makes
ReadCalls(ide) == IF ide = Undefined THEN 0 ELSE 1

isRifWithContents(rif) == "contents" \in DOMAIN rif

WithContents(rif, text) ==
    [filepath |-> rif.filepath, range |-> rif.range, contents |-> text]

-----------------------------------------------------------------------------
(* Truncation of a function body, lsp.ts lines 48-74 *)

FirstIndexOf(text, tok, from) ==
    LET at == {i \in from..Len(text) : text[i] = tok} IN
    IF at = {} THEN 0 ELSE CHOOSE i \in at : \A j \in at : i <= j

\* findChildren(root, FUNCTION_DECLARATION_NODE_TYPEs, 1): where the first
\* function declaration of the fragment starts (1-based), 0 when there is none
FunNodeAt(text) == FirstIndexOf(text, "function", 1)

\* findChildren(funNode, FUNCTION_BLOCK_NODE_TYPES, 1): statementBlockNode.startIndex
\* plus one, 0 when the declaration has no block
BlockAt(text) ==
    IF FunNodeAt(text) = 0 THEN 0 ELSE FirstIndexOf(text, "{", FunNodeAt(text))

AstOutcomes == {"tree", "none", "throw"}

\* The text of lines 48-74 for a body funcText, given what getAst answers
TruncateBody(funcText, ast) ==
    IF Len(SplitLines(funcText)) > MAX_LINES
    THEN IF ast = "throw" THEN [status |-> "throw", text |-> <<>>]
         ELSE IF ast = "tree" /\ FunNodeAt(funcText) # 0 /\ BlockAt(funcText) # 0
         THEN [status |-> "ok", text |-> Trim(Slice0(funcText, BlockAt(funcText) - 1))]
         ELSE [status |-> "ok", text |-> SplitLines(funcText)[1]]
    ELSE [status |-> "ok", text |-> funcText]

-----------------------------------------------------------------------------
(* The type crawler *)

TypeRefPos == Pos(1, 3)

\* What re-parsing a definition's text can find: no type reference, or one, with
\* what the provider does for its query
TypeRefs ==
    {<<>>} \cup {<<[pos |-> TypeRefPos, outcome |-> o]>> :
                     o \in {Threw, Answered(<<>>), Answered(<<ColorDef>>)}}

\* crawlTypes: one type-definition query per type reference found in the
\* definition's text; a resolved type is read and kept, a failure is dropped
RECURSIVE crawlTypes(_, _, _, _, _)
crawlTypes(def, ide, cache, fails, refs) ==
    IF refs = <<>>
    THEN [value |-> <<>>, cache |-> cache, invoked |-> <<>>, hits |-> <<>>,
          reads |-> 0, threw |-> FALSE]
    ELSE LET r == Head(refs)
             g == executeGotoProvider(
                      GotoInput(def.filepath, r.pos.line, r.pos.character,
                                TypeDefinitionProvider), cache, r.outcome)
             found == g.locs # <<>>
             rd == readRangeInFile(ide, Head(g.locs).filepath, Head(g.locs).range, fails)
             here == IF found /\ rd.status = "ok"
                     THEN <<WithContents(Head(g.locs), rd.text)>> ELSE <<>>
             rest == crawlTypes(def, ide, g.cache, fails, Tail(refs))
         IN [value |-> here \o rest.value, cache |-> rest.cache,
             invoked |-> g.invoked \o rest.invoked, hits |-> g.hits \o rest.hits,
             reads |-> (IF found THEN ReadCalls(ide) ELSE 0) + rest.reads,
             threw |-> g.threw \/ (found /\ rd.provider) \/ rest.threw]

-----------------------------------------------------------------------------
(* getDefinitionsForNode *)

Lang == "typescript"

\* lang.singleLineComment
singleLineComment(lang) == "//"

\* the ranges the file-content provider fails on
FailSets == {{}, {FunShort}, {ColorDef}}

\* What the providers do during one call: the answer to the node's definition
\* query, the answer of getAst for the body, the type references of the body,
\* the ranges that cannot be read
Envs == [goto : GotoOutcomes, ast : AstOutcomes, refs : TypeRefs, fails : FailSets]

\* Without an ide no body is read, so getAst, crawlTypes and the file-content
\* provider are not reached: their behaviour is left at one value
EnvsOf(ide) ==
    IF ide = Undefined
    THEN {e \in Envs : e.ast = "tree" /\ e.refs = <<>> /\ e.fails = {}}
    ELSE Envs

Resolved(def, fails) == <<[def |-> def, readable |-> def \notin fails]>>

Out(st, val, g, ct, rds, thr, res) ==
    [status |-> st, value |-> val, cache |-> ct.cache,
     invoked |-> g.invoked \o ct.invoked, hits |-> g.hits \o ct.hits,
     reads |-> rds + ct.reads, threw |-> g.threw \/ ct.threw \/ thr, resolved |-> res]

\* a crawl that did not happen
NoCrawl(cache) == crawlTypes([filepath |-> "", contents |-> <<>>], Undefined, cache, {}, <<>>)

\* lines 131-141: every range without contents is read; Promise.all keeps the
\* order of ranges and rejects when one read rejects
FinalReads(ranges, ide, fails) ==
    LET need == {i \in 1..Len(ranges) : ~isRifWithContents(ranges[i])}
        rd(i) == readRangeInFile(ide, ranges[i].filepath, ranges[i].range, fails)
    IN [status |-> IF \E i \in need : rd(i).status = "throw" THEN "throw" ELSE "ok",
        value |-> [i \in 1..Len(ranges) |->
                      IF i \in need THEN WithContents(ranges[i], rd(i).text) ELSE ranges[i]],
        reads |-> Cardinality(need) * ReadCalls(ide),
        provider |-> \E i \in need : rd(i).provider]

\* lines 76-87 and 131-141: the definition and the crawled types are returned
CallExpressionReturn(g, funDef, ct, fin, ide, fails) ==
    IF fin.status = "throw"
    THEN Out("throw", <<>>, g, ct, ReadCalls(ide) + fin.reads, fin.provider,
             Resolved(funDef, fails))
    ELSE Out("ok", fin.value, g, ct, ReadCalls(ide) + fin.reads, FALSE,
             Resolved(funDef, fails))

\* lines 76-85: ranges.push(funDef), then the types crawled from the kept text
CallExpressionCrawl(g, funDef, tb, ide, env) ==
    IF tb.status = "throw"
    THEN Out("throw", <<>>, g, NoCrawl(g.cache), ReadCalls(ide), TRUE,
             Resolved(funDef, env.fails))
    ELSE CallExpressionReturn(
             g, funDef,
             crawlTypes(WithContents(funDef, tb.text), ide, g.cache, env.fails, env.refs),
             FinalReads(<<funDef>>
                            \o crawlTypes(WithContents(funDef, tb.text), ide, g.cache,
                                          env.fails, env.refs).value,
                        ide, env.fails),
             ide, env.fails)

\* lines 47-74: the body is read and, when long, truncated
CallExpressionRead(g, funDef, rd, ide, env) ==
    IF rd.status = "throw"
    THEN Out("throw", <<>>, g, NoCrawl(g.cache), ReadCalls(ide), rd.provider,
             Resolved(funDef, env.fails))
    ELSE CallExpressionCrawl(g, funDef, TruncateBody(rd.text, env.ast), ide, env)

\* lines 41-47: no definition, or the first one
CallExpressionFound(g, ide, env) ==
    IF g.locs = <<>> THEN Out("ok", <<>>, g, NoCrawl(g.cache), 0, FALSE, <<>>)
    ELSE CallExpressionRead(
             g, Head(g.locs),
             readRangeInFile(ide, Head(g.locs).filepath, Head(g.locs).range, env.fails),
             ide, env)

\* case "call_expression", lines 33-87
CallExpression(u, node, ide, cache, env) ==
    CallExpressionFound(
        executeGotoProvider(
            GotoInput(u, node.startPosition.row, node.startPosition.column,
                      DefinitionProvider), cache, env.goto),
        ide, env)

\* node.children.find((child) => child.type === "identifier")
\* (<<>> when there is none)
ClassNameNode(node) ==
    LET at == {i \in 1..Len(node.children) : node.children[i].type = "identifier"} IN
    IF at = {} THEN <<>>
    ELSE <<node.children[CHOOSE i \in at : \A j \in at : i <= j]>>

\* the contents template of lines 116-120
ClassContents(classNameNode, lang, contents) ==
    (IF classNameNode # <<>> /\ classNameNode[1].text # <<>>
     THEN <<singleLineComment(lang), " ">> \o classNameNode[1].text \o <<":", "\n">>
     ELSE <<>>) \o Trim(contents)

\* lines 123-126 and 131-141: the class and the crawled types are returned
NewExpressionReturn(g, classDef, ct, fin, ide, fails) ==
    IF fin.status = "throw"
    THEN Out("throw", <<>>, g, ct, ReadCalls(ide) + fin.reads, fin.provider,
             Resolved(classDef, fails))
    ELSE Out("ok", fin.value, g, ct, ReadCalls(ide) + fin.reads, FALSE,
             Resolved(classDef, fails))

\* lines 109-124: the range is read, commented, and its types crawled
NewExpressionRead(g, classNameNode, classDef, rd, ide, lang, env) ==
    IF rd.status = "throw"
    THEN Out("throw", <<>>, g, NoCrawl(g.cache), ReadCalls(ide), rd.provider,
             Resolved(classDef, env.fails))
    ELSE IF classNameNode # <<>> /\ classNameNode[1].text # <<>> /\ lang = Undefined
    THEN Out("throw", <<>>, g, NoCrawl(g.cache), ReadCalls(ide), FALSE,
             Resolved(classDef, env.fails))
    ELSE NewExpressionReturn(
             g, classDef,
             crawlTypes(WithContents(classDef, rd.text), ide, g.cache, env.fails, env.refs),
             FinalReads(<<WithContents(classDef,
                                       ClassContents(classNameNode, lang, rd.text))>>
                            \o crawlTypes(WithContents(classDef, rd.text), ide, g.cache,
                                          env.fails, env.refs).value,
                        ide, env.fails),
             ide, env.fails)

\* lines 106-112: no definition, or the first one
NewExpressionFound(g, classNameNode, ide, lang, env) ==
    IF g.locs = <<>> THEN Out("ok", <<>>, g, NoCrawl(g.cache), 0, FALSE, <<>>)
    ELSE NewExpressionRead(
             g, classNameNode, Head(g.locs),
             readRangeInFile(ide, Head(g.locs).filepath, Head(g.locs).range, env.fails),
             ide, lang, env)

\* (classNameNode ?? node).endPosition
QueryPoint(classNameNode, node) ==
    IF classNameNode # <<>> THEN classNameNode[1].endPosition ELSE node.endPosition

\* case "new_expression", lines 95-126
NewExpression(u, node, ide, lang, cache, env) ==
    NewExpressionFound(
        executeGotoProvider(
            GotoInput(u, QueryPoint(ClassNameNode(node), node).row,
                      QueryPoint(ClassNameNode(node), node).column, DefinitionProvider),
            cache, env.goto),
        ClassNameNode(node), ide, lang, env)

\* the switch on node.type: every other kind gathers nothing
getDefinitionsForNode(u, node, ide, lang, cache, env) ==
    IF node.type = "call_expression" THEN CallExpression(u, node, ide, cache, env)
    ELSE IF node.type = "new_expression"
    THEN NewExpression(u, node, ide, lang, cache, env)
    ELSE LET none == NoCrawl(cache) IN Out("ok", <<>>, none, none, 0, FALSE, <<>>)

-----------------------------------------------------------------------------
(* getDefinitionsFromLsp *)

Ide == "ide"

\* The ide and lang that getDefinitionsForNode receives from the call
\* getDefinitionsForNode(filepath, node) of line 165: the call passes two
\* arguments, so both parameters are undefined there
PassedIde(ide) == Undefined
PassedLang(lang) == Undefined

\* a loop that falls back to a call node when the path is empty
VisitOrderDefault(path) == IF path = <<>> THEN <<CallInner>> ELSE Reverse(path)

\* for (const node of treePath.reverse())
VisitOrder(path) == Reverse(path)

\* lines 166-185: every definition is read again through the ide; Promise.all
\* keeps the order of definitions and rejects when one read rejects
LoopReads(definitions, ide, fails) ==
    LET rd(i) == readRangeInFile(ide, definitions[i].filepath,
                                 VsRange(definitions[i].range), fails)
    IN [status |-> IF \E i \in 1..Len(definitions) : rd(i).status = "throw"
                   THEN "throw" ELSE "ok",
        value |-> [i \in 1..Len(definitions) |-> WithContents(definitions[i], rd(i).text)],
        reads |-> Len(definitions) * ReadCalls(ide),
        provider |-> \E i \in 1..Len(definitions) : rd(i).provider]

\* lines 188-191
Scored(rs) ==
    [i \in 1..Len(rs) |->
        [filepath |-> rs[i].filepath, range |-> rs[i].range,
         contents |-> rs[i].contents, score |-> SCORE_TENTHS]]

Returned(value) == [kind |-> "returned", value |-> value]

\* a handler that logs and throws the error on
CatchRethrow(e) == [kind |-> "raised", value |-> <<>>]

\* catch (e) { console.warn(...); return []; }
Catch(e) == Returned(<<>>)

NoRet == [kind |-> "none", value |-> <<>>]

Init ==
    /\ pc = "idle"
    /\ uri = Undefined
    /\ treePath = <<>>
    /\ idx = 1
    /\ results = <<>>
    /\ ret = NoRet
    /\ exit = "none"
    /\ gotoCache = <<>>
    /\ runs = 0
    /\ invoked = <<>>
    /\ hits = <<>>
    /\ reads = 0
    /\ threw = FALSE
    /\ located = FALSE
    /\ failed = <<>>
    /\ resolved = <<>>

\* a caller starts getDefinitionsFromLsp(filepath, contents, cursorIndex, ide)
Call ==
    /\ pc \in {"idle", "done"}
    /\ runs < MaxRuns
    /\ \E f \in Files : uri' = f
    /\ pc' = "getAst"
    /\ runs' = runs + 1
    /\ treePath' = <<>>
    /\ idx' = 1
    /\ results' = <<>>
    /\ ret' = NoRet
    /\ exit' = "none"
    /\ invoked' = <<>>
    /\ hits' = <<>>
    /\ reads' = 0
    /\ threw' = FALSE
    /\ located' = FALSE
    /\ failed' = <<>>
    /\ resolved' = <<>>
    /\ UNCHANGED gotoCache

\* const ast = await getAst(filepath, contents); if (!ast) return [];
GetAst ==
    /\ pc = "getAst"
    /\ \E ast \in AstOutcomes :
          \/ /\ ast = "tree"
             /\ pc' = "getTreePath"
             /\ UNCHANGED <<ret, exit, threw>>
          \/ /\ ast = "none"
             /\ pc' = "done"
             /\ ret' = Returned(<<>>)
             /\ exit' = "no ast"
             /\ UNCHANGED threw
          \/ /\ ast = "throw"
             /\ pc' = "done"
             /\ ret' = Catch("getAst")
             /\ exit' = "catch"
             /\ threw' = TRUE
    /\ UNCHANGED <<uri, treePath, idx, results, gotoCache, runs, invoked, hits, reads,
                   located, failed, resolved>>

\* const treePath = await getTreePathAtCursor(ast, cursorIndex);
\* if (!treePath) return [];
GetTreePath ==
    /\ pc = "getTreePath"
    /\ \/ \E path \in TreePaths :
             /\ treePath' = VisitOrder(path)
             /\ located' = (path # <<>>)
             /\ pc' = "loop"
             /\ UNCHANGED <<ret, exit, threw>>
       \/ /\ pc' = "done"
          /\ ret' = Returned(<<>>)
          /\ exit' = "no path"
          /\ UNCHANGED <<treePath, located, threw>>
       \/ /\ pc' = "done"
          /\ ret' = Catch("getTreePathAtCursor")
          /\ exit' = "catch"
          /\ threw' = TRUE
          /\ UNCHANGED <<treePath, located>>
    /\ UNCHANGED <<uri, idx, results, gotoCache, runs, invoked, hits, reads, failed,
                   resolved>>

\* one iteration of the loop of lines 164-186
VisitNode ==
    /\ pc = "loop"
    /\ idx <= Len(treePath)
    /\ \E env \in EnvsOf(PassedIde(Ide)) :
          LET r == getDefinitionsForNode(uri, treePath[idx], PassedIde(Ide),
                                         PassedLang(Lang), gotoCache, env)
              again == LoopReads(r.value, Ide, env.fails)
          IN /\ gotoCache' = r.cache
             /\ invoked' = invoked \o r.invoked
             /\ hits' = hits \o r.hits
             /\ resolved' = Append(resolved, r.resolved)
             /\ failed' = Append(failed, r.threw \/ (r.status = "ok" /\ again.provider))
             /\ IF r.status = "throw"
                THEN /\ pc' = "done"
                     /\ ret' = Catch("getDefinitionsForNode")
                     /\ exit' = "catch"
                     /\ reads' = reads + r.reads
                     /\ threw' = (threw \/ r.threw)
                     /\ UNCHANGED <<idx, results>>
                ELSE IF again.status = "throw"
                THEN /\ pc' = "done"
                     /\ ret' = Catch("readRangeInFile")
                     /\ exit' = "catch"
                     /\ reads' = reads + r.reads + again.reads
                     /\ threw' = (threw \/ r.threw \/ again.provider)
                     /\ UNCHANGED <<idx, results>>
                ELSE /\ results' = results \o again.value
                     /\ idx' = idx + 1
                     /\ reads' = reads + r.reads + again.reads
                     /\ threw' = (threw \/ r.threw)
                     /\ UNCHANGED <<pc, ret, exit>>
    /\ UNCHANGED <<uri, treePath, runs, located>>

\* return results.map((result) => ({ ...result, score: 0.8 }));
Finish ==
    /\ pc = "loop"
    /\ idx > Len(treePath)
    /\ pc' = "done"
    /\ ret' = Returned(Scored(results))
    /\ exit' = "end"
    /\ UNCHANGED <<uri, treePath, idx, results, gotoCache, runs, invoked, hits, reads,
                   threw, located, failed, resolved>>

Next == Call \/ GetAst \/ GetTreePath \/ VisitNode \/ Finish

Spec == Init /\ [][Next]_vars

-----------------------------------------------------------------------------
(* Properties *)

\* the snippets of ret for the definition def
SnippetsFor(def) ==
    {k \in 1..Len(ret.value) :
        ret.value[k].filepath = def.filepath /\ ret.value[k].range = def.range}

\* the nodes visited in this run whose query resolved to a readable definition
ResolvedAt(i) == resolved[i] # <<>> /\ resolved[i][1].readable

\* C1: getDefinitionsFromLsp never raises: every finished call has returned a
\* sequence, and when a provider call threw during the run that sequence is empty.
C1_NeverRaises ==
    pc = "done" => (ret.kind = "returned" /\ (threw => ret.value = <<>>))

\* a finished run in which the definition-resolution provider was asked and a
\* provider call threw
C1_Witness ==
    pc = "done" /\ threw /\ invoked # <<>> /\ exit = "catch" /\ ret = Returned(<<>>)

\* C2: when the Syntax Path Locator yields nothing (no tree, no path, an empty
\* path) the call returns the empty sequence and has asked neither the
\* definition-resolution provider nor the file-content provider.
C2_EmptyLocatorNoCalls ==
    (pc = "done" /\ ~located) => (ret = Returned(<<>>) /\ invoked = <<>> /\ reads = 0)

\* a run over an empty path: the loop ran no iteration and the call left
\* through its last statement, with answers in the cache it did not ask for
C2_Witness ==
    pc = "done" /\ ~located /\ exit = "end" /\ gotoCache # <<>> /\ ret = Returned(<<>>)

\* C3: within one run the external resolver is asked at most once for each
\* tuple (kind, filepath, line, column).
C3_ResolverAskedOnce ==
    \A i, j \in 1..Len(invoked) : invoked[i] = invoked[j] => i = j

\* two nodes of one path issued the same query: the first went to the provider,
\* the second was answered from the cache
C3_Witness ==
    \E i \in 1..Len(invoked), j \in 1..Len(hits) :
        /\ hits[j].query = invoked[i]
        /\ hits[j].origin = invoked[i]

\* C4: for every call_expression node of the path whose definition resolves and
\* is readable, the returned sequence holds a snippet for that definition whose
\* contents is the body as the truncation policy leaves it.
C4_TruncatedFunctionSnippet ==
    pc = "done" =>
        \A i \in 1..Len(resolved) :
            (treePath[i].type = "call_expression" /\ ResolvedAt(i)) =>
                LET def == resolved[i][1].def
                    body == FileText(def.filepath, def.range)
                IN \E k \in SnippetsFor(def) :
                      ret.value[k].contents \in
                          {TruncateBody(body, ast).text : ast \in {"tree", "none"}}

\* C5: for every new_expression node of the path that has an identifier child
\* and whose definition resolves and is readable, the returned sequence holds a
\* snippet for that definition whose contents starts with the comment line
\* "// <identifier>:" and goes on with the text of the defining range.
C5_CommentedClassSnippet ==
    pc = "done" =>
        \A i \in 1..Len(resolved) :
            (/\ treePath[i].type = "new_expression"
             /\ ClassNameNode(treePath[i]) # <<>>
             /\ ResolvedAt(i)) =>
                LET def == resolved[i][1].def
                    body == FileText(def.filepath, def.range)
                    head == <<singleLineComment(Lang), " ">>
                                \o ClassNameNode(treePath[i])[1].text \o <<":", "\n">>
                IN \E k \in SnippetsFor(def) :
                      ret.value[k].contents \in {head \o body, head \o Trim(body)}

\* C6: when a provider call throws while one node is processed, the snippets of
\* every other node are still in the returned sequence.
C6_OtherNodesKept ==
    (pc = "done" /\ \E j \in 1..Len(failed) : failed[j]) =>
        \A i \in 1..Len(resolved) :
            (~failed[i] /\ ResolvedAt(i)) => SnippetsFor(resolved[i][1].def) # {}

\* C10: a query is answered from the cache only with the locations of a query
\* that has the same kind, file, line and column.
C10_ExactCacheKey ==
    \A j \in 1..Len(hits) : hits[j].origin = hits[j].query

====
